---- MODULE Spec2Model ----
(***************************************************************************)
(* Jumbles: the drag-and-drop Grid component (src/components/Grid.tsx)     *)
(* together with the App component that mounts it (src/App.tsx).           *)
(*                                                                         *)
(* One action is one browser event: the handler, the batched re-render     *)
(* that React performs for it and the effects of that render.              *)
(*                                                                         *)
(* Spec        the Grid mounted by App with a well-formed puzzle           *)
(* SpecLoad    App rendering the outcome of the puzzle query               *)
(* SpecPart001 the earlier Grid with a budget guard (unnamed/part_001)     *)
(* SpecPart000 the Grid with a pointer sensor (unnamed/part_000)           *)
(* SpecSameRender  Spec with two drags handled by one render of the Grid   *)
(* SpecTapOnly the tap-only Grid with MAX_SWAPS = 12                       *)
(* SpecShuffle the hard-mode shuffle of one render of App                  *)
(***************************************************************************)
EXTENDS Integers, Sequences, FiniteSets, TLC

VARIABLES
    data,        \* App: the puzzle returned by useQuery(fetchToday)
    hardMode,    \* App: useState(false)
    swapCount,   \* App: useState(0), set through onSwap
    solvedMoves, \* App: useState(null); <<>> is null, <<n>> is the number n
    showGiveUp,  \* App: useState(false), the out-of-moves dialog
    rowSolved,   \* App: useState([false, false, false, false])
    grid,        \* Grid: useState(initial)
    swaps,       \* Grid: useState(0)
    selected,    \* Grid: useState(null); <<>> is null, <<r, c>> a coordinate
    validRows,   \* Grid: useMemo(() => grid.map(...), [grid])
    prevValid,   \* Grid: useState(validRows)[0]
    origin,      \* the grid the mounted Grid instance was created with
    awaiting,    \* rows valid before the last reset and invalid ever since
    outOfMovesSeen, \* onOutOfMoves was called since creation or the last reset
    emitted,     \* the callbacks the Grid invoked during the last step
    sameTile,    \* the last input named one tile twice: a tap on the selected
                 \* tile, or a tile dragged and dropped on itself
    view,        \* what App renders: "loading", "unavailable" or "game"
    gesture,     \* pointer-sensor Grid: the pointer gesture in progress
    loop,        \* the hard-mode shuffle loop of one render of App, or null
    showAnswers  \* App: useState(false), the answers dialog

vars == <<data, hardMode, swapCount, solvedMoves, showGiveUp, rowSolved,
          grid, swaps, selected, validRows, prevValid, origin, awaiting,
          outOfMovesSeen, emitted, sameTile, view, gesture, loop,
          showAnswers>>

(***************************************************************************)
(* Bounds of the model.                                                    *)
(***************************************************************************)
\* number of tiles the player touches, the first NumCells of CellOrder
NumCells == 3
\* flat indices below ShuffleSpan draw freely in the hard-mode shuffle
ShuffleSpan == 2
\* the counter of the Grid has no ceiling of its own; inputs stop here
MaxCount == 15
\* iterations of the shuffle loop of SpecShuffle that may draw j # i
FreeDraws == 1
\* a fetched payload has up to Slack rows, letters in one row or solution
\* entries too many or too few
Slack == 1

(***************************************************************************)
(* Program constants.                                                      *)
(***************************************************************************)
MAX_SWAPS == 14
ROWS == 4
COLS == 5

null == <<>>

\* the tiles in the order in which NumCells admits them
CellOrder == << <<0, 0>>, <<0, 1>>, <<1, 0>>, <<3, 0>>, <<2, 0>>, <<1, 1>> >>

Cells == {CellOrder[k] : k \in 1..NumCells}

(***************************************************************************)
(* Letters, words and the dictionary.                                      *)
(***************************************************************************)
UpperCase == <<"A", "C", "E", "K", "R", "T", "Y">>
LowerCase == <<"a", "c", "e", "k", "r", "t", "y">>

\* the lower-case letter of every upper-case letter
lowerOf ==
    [ch \in {UpperCase[i] : i \in 1..Len(UpperCase)} |->
        LowerCase[CHOOSE i \in 1..Len(UpperCase) : UpperCase[i] = ch]]

\* String.prototype.toLowerCase on one character
lowerChar(ch) == IF ch \in DOMAIN lowerOf THEN lowerOf[ch] ELSE ch

\* a lower-casing that leaves every character as it is
toLowerCaseIdentity(s) == s

\* String.prototype.toLowerCase
toLowerCase(s) == [i \in 1..Len(s) |-> lowerChar(s[i])]

\* Array.prototype.join(""): a 0-based array of letters becomes a string
join(row) == [i \in 1..Cardinality(DOMAIN row) |-> row[i - 1]]

\* the word list of data/words5
WORD_SET ==
    { <<"t", "a", "t", "t", "y">>,
      <<"t", "r", "a", "c", "e">>,
      <<"c", "r", "a", "t", "e">>,
      <<"t", "r", "a", "c", "k">> }

(***************************************************************************)
(* App: the fetched puzzle and the grid handed to the Grid component.      *)
(***************************************************************************)
\* a row of the payload written as a string
Str(s) == [kind |-> "string", chars |-> s]
\* a row of the payload written as an array of letters
Arr(s) == [kind |-> "array", items |-> [i \in 0..(Len(s) - 1) |-> s[i + 1]]]

\* what fetchToday can return: rows come as strings or as arrays of letters
Puzzles ==
    { [id |-> "2025-06-01",
       grid |-> [r \in 0..3 |->
                   CASE r = 0 -> Str(<<"A", "T", "T", "T", "Y">>)
                     [] r = 1 -> Arr(<<"T", "R", "A", "C", "E">>)
                     [] r = 2 -> Str(<<"C", "R", "A", "T", "E">>)
                     [] r = 3 -> Arr(<<"T", "R", "A", "C", "K">>)],
       solution |-> Arr(<<"tatty", "trace", "crate", "track">>)] }

\* toArr: an array stays as it is, a string is split into its characters
toArr(r) ==
    IF r.kind = "array" THEN r.items
    ELSE [i \in 0..(Len(r.chars) - 1) |-> r.chars[i + 1]]

\* data.grid.map(toArr)
preparedGrid(d) == [r \in DOMAIN d.grid |-> toArr(d.grid[r])]

\* grid.flat() of a grid of rows of COLS letters
flat(g) == [k \in 0..(ROWS * COLS - 1) |-> g[k \div COLS][k % COLS]]

\* the values Math.floor(Math.random() * (i + 1)) takes in the model
Draws(i) == IF i < ShuffleSpan THEN 0..i ELSE {i}

\* an exchange that writes flat[i] only
exchangeOneWay(f, i, j) == [k \in DOMAIN f |-> IF k = i THEN f[j] ELSE f[k]]

\* [flat[i], flat[j]] = [flat[j], flat[i]]
exchange(f, i, j) ==
    IF i = j THEN f
    ELSE [k \in DOMAIN f |->
            IF k = i THEN f[j] ELSE IF k = j THEN f[i] ELSE f[k]]

\* the loop for (i = flat.length - 1; i > 0; i--), all outcomes from index i
RECURSIVE shuffleFrom(_, _)
shuffleFrom(f, i) ==
    IF i <= 0 THEN {f}
    ELSE UNION { shuffleFrom(exchange(f, i, j), i - 1) : j \in Draws(i) }

\* Array.from({ length: 4 }, (_, i) => flat.slice(i * 5, i * 5 + 5))
unflat(f) == [r \in 0..(ROWS - 1) |-> [c \in 0..(COLS - 1) |-> f[r * COLS + c]]]

\* the grids one render of App can pass to the Grid as `initial`
renderGrid(d, hard) ==
    IF hard
    THEN { unflat(f) : f \in shuffleFrom(flat(preparedGrid(d)),
                                         ROWS * COLS - 1) }
    ELSE { preparedGrid(d) }

\* renderGrid for every puzzle and mode
renders == [d \in Puzzles |-> [hard \in BOOLEAN |-> renderGrid(d, hard)]]

(***************************************************************************)
(* Grid: derived values and effects.                                       *)
(***************************************************************************)
\* grid.map((row) => WORD_SET.has(row.join("").toLowerCase()))
rowValidity(g) == [r \in DOMAIN g |-> toLowerCase(join(g[r])) \in WORD_SET]

\* validRows.every(Boolean)
every(vr) == \A i \in DOMAIN vr : vr[i]

\* the rows the first effect calls onRowSolved with
rowEffect(vr, pv) == {i \in DOMAIN vr : vr[i] /\ ~pv[i]}

\* the second effect, calling onSolved as soon as some row is valid
statusEffectAnyRow(vr, n) ==
    [solved |-> IF \E i \in DOMAIN vr : vr[i] THEN <<n>> ELSE <<>>,
     outOfMoves |-> n >= MAX_SWAPS /\ ~every(vr)]

\* the second effect, calling onOutOfMoves only above the limit
statusEffectLate(vr, n) ==
    [solved |-> IF every(vr) THEN <<n>> ELSE <<>>,
     outOfMoves |-> n > MAX_SWAPS /\ ~every(vr)]

\* the second effect without the test that keeps the two outcomes apart
statusEffectUnguarded(vr, n) ==
    [solved |-> IF every(vr) THEN <<n>> ELSE <<>>,
     outOfMoves |-> n >= MAX_SWAPS]

\* the second effect reading the counter of the render before the swap
statusEffectStaleCount(vr, n) ==
    [solved |-> IF every(vr) THEN <<IF n > 0 THEN n - 1 ELSE 0>> ELSE <<>>,
     outOfMoves |-> n >= MAX_SWAPS /\ ~every(vr)]

\* the second effect: onSolved(swaps) and onOutOfMoves()
statusEffect(vr, n) ==
    [solved |-> IF every(vr) THEN <<n>> ELSE <<>>,
     outOfMoves |-> n >= MAX_SWAPS /\ ~every(vr)]

\* a swap that copies one tile over the other instead of exchanging them
nextGridOverwrite(g, r1, c1, r2, c2) == [g EXCEPT ![r1][c1] = g[r2][c2]]

\* a swap that takes the column of the first tile for both tiles
nextGridWrongColumn(g, r1, c1, r2, c2) ==
    [g EXCEPT ![r1][c1] = g[r2][c1], ![r2][c1] = g[r1][c1]]

\* doSwap: const next = grid.map((r) => [...r]);
\*         [next[r1][c1], next[r2][c2]] = [next[r2][c2], next[r1][c1]]
nextGrid(g, r1, c1, r2, c2) ==
    [g EXCEPT ![r1][c1] = g[r2][c2], ![r2][c2] = g[r1][c1]]

\* a counter that stops at the ceiling
newCountCapped(n) == IF n >= MAX_SWAPS THEN n ELSE n + 1

\* doSwap: const newCount = swaps + 1
newCountSkips(n) == n + 2

newCount(n) == n + 1

(***************************************************************************)
(* Tile ids of the drag-and-drop layer.                                    *)
(***************************************************************************)
Digits == <<"0", "1", "2", "3", "4", "5", "6", "7", "8", "9">>

\* `${r}-${c}` for one-digit r and c
tileId(r, c) == <<Digits[r + 1], "-", Digits[c + 1]>>

\* String.prototype.split(sep) on a string without empty fields
RECURSIVE split(_, _)
split(s, sep) ==
    IF \E i \in 1..Len(s) : s[i] = sep
    THEN LET i == CHOOSE k \in 1..Len(s) :
                     s[k] = sep /\ \A m \in 1..(k - 1) : s[m] # sep
         IN <<SubSeq(s, 1, i - 1)>> \o split(SubSeq(s, i + 1, Len(s)), sep)
    ELSE <<s>>

\* Number(s) for a string of decimal digits
RECURSIVE Number(_)
Number(s) ==
    IF Len(s) = 0 THEN 0
    ELSE 10 * Number(SubSeq(s, 1, Len(s) - 1))
         + ((CHOOSE d \in 1..10 : Digits[d] = s[Len(s)]) - 1)

\* id.split("-").map(Number)
parseId(id) == LET parts == split(id, "-")
               IN [i \in 1..Len(parts) |-> Number(parts[i])]

\* the id of every tile the player touches (Droppable id / Draggable id)
idOf == [p \in Cells |-> tileId(p[1], p[2])]

\* what handleDragEnd reads back from each id that exists
parsed == [id \in {idOf[p] : p \in Cells} |-> parseId(id)]

(***************************************************************************)
(* Steps.                                                                  *)
(***************************************************************************)
NoCalls == [swap |-> <<>>, rowSolved |-> {}, solved |-> <<>>,
            outOfMoves |-> FALSE]

NoRows == [r \in 0..(ROWS - 1) |-> FALSE]

\* no pointer is down
Idle == [phase |-> "idle"]

\* handleRowSolved for every row of rs, applied to prev
markRows(prev, rs) == [r \in DOMAIN prev |-> prev[r] \/ r \in rs]

\* the Grid is mounted with `initial` = g
Mount(g) ==
    /\ grid' = g
    /\ origin' = g
    /\ swaps' = 0
    /\ selected' = null
    /\ validRows' = rowValidity(g)
    /\ prevValid' = validRows'
    /\ awaiting' = NoRows
    /\ outOfMovesSeen' = FALSE
    /\ emitted' = [NoCalls EXCEPT !.solved = statusEffect(validRows', 0).solved]
    /\ solvedMoves' = emitted'.solved
    /\ showGiveUp' = FALSE
    /\ sameTile' = FALSE

Init ==
    /\ data \in Puzzles
    /\ hardMode = FALSE
    /\ swapCount = 0
    /\ rowSolved = NoRows
    /\ grid = preparedGrid(data)
    /\ origin = grid
    /\ swaps = 0
    /\ selected = null
    /\ validRows = rowValidity(grid)
    /\ prevValid = validRows
    /\ awaiting = NoRows
    /\ outOfMovesSeen = FALSE
    /\ emitted = [NoCalls EXCEPT !.solved = statusEffect(validRows, 0).solved]
    /\ solvedMoves = emitted.solved
    /\ showGiveUp = FALSE
    /\ sameTile = FALSE
    /\ view = "game"
    /\ gesture = Idle
    /\ loop = null
    /\ showAnswers = FALSE

\* the two effects of a render in which validRows or swaps is new, and the
\* callbacks of App they invoke; count is what the handler passed to onSwap,
\* rows and moves are App's rowSolved and solvedMoves as the handler left them
Effects(count, rows, moves) ==
    /\ emitted' = [swap |-> <<count>>,
                   rowSolved |-> rowEffect(validRows', prevValid),
                   solved |-> statusEffect(validRows', swaps').solved,
                   outOfMoves |-> statusEffect(validRows', swaps').outOfMoves]
    /\ rowSolved' = markRows(rows, emitted'.rowSolved)
    /\ solvedMoves' = IF emitted'.solved # <<>> THEN emitted'.solved ELSE moves
    /\ showGiveUp' = (showGiveUp \/ emitted'.outOfMoves)

\* doSwap(r1, c1, r2, c2), the render that follows it and its effects
doSwap(r1, c1, r2, c2) ==
    /\ grid' = nextGrid(grid, r1, c1, r2, c2)
    /\ swaps' = newCount(swaps)
    /\ swapCount' = swaps'
    /\ validRows' = rowValidity(grid')
    /\ Effects(swaps', rowSolved, solvedMoves)
    /\ awaiting' = [r \in DOMAIN awaiting |-> awaiting[r] /\ ~validRows'[r]]
    /\ outOfMovesSeen' = (outOfMovesSeen \/ emitted'.outOfMoves)
    /\ sameTile' = FALSE
    /\ UNCHANGED <<data, hardMode, prevValid, origin, view, gesture, loop,
                   showAnswers>>

\* a handler that leaves the grid and the counter alone: no effect runs
Quiet ==
    /\ emitted' = NoCalls
    /\ UNCHANGED <<data, hardMode, swapCount, solvedMoves, showGiveUp,
                   rowSolved, grid, swaps, validRows, prevValid, origin,
                   awaiting, outOfMovesSeen, view, gesture, loop, showAnswers>>

\* handleDragEnd(e) with e.active.id = idOf[from] and e.over?.id = idOf[to]
handleDragEnd(from, to) ==
    /\ swaps < MaxCount
    /\ IF to = null \/ idOf[from] = idOf[to]
       THEN /\ Quiet
            /\ sameTile' = (to # null)
            /\ UNCHANGED selected
       ELSE /\ doSwap(parsed[idOf[from]][1], parsed[idOf[from]][2],
                      parsed[idOf[to]][1], parsed[idOf[to]][2])
            /\ UNCHANGED selected

\* handleTileClick without its test for the selected tile
handleTileClickNoToggle(r, c) ==
    /\ swaps < MaxCount
    /\ IF selected # null
       THEN /\ doSwap(selected[1], selected[2], r, c)
            /\ selected' = null
       ELSE /\ selected' = <<r, c>>
            /\ sameTile' = FALSE
            /\ Quiet

\* handleTileClick whose first tap counts as a swap of the tile with itself
handleTileClickCounts(r, c) ==
    /\ swaps < MaxCount
    /\ IF selected # null
       THEN IF selected[1] = r /\ selected[2] = c
            THEN /\ selected' = null
                 /\ sameTile' = TRUE
                 /\ Quiet
            ELSE /\ doSwap(selected[1], selected[2], r, c)
                 /\ selected' = null
       ELSE /\ selected' = <<r, c>>
            /\ doSwap(r, c, r, c)

\* handleTileClick(r, c)
handleTileClick(r, c) ==
    /\ swaps < MaxCount
    /\ IF selected # null
       THEN IF selected[1] = r /\ selected[2] = c
            THEN /\ selected' = null
                 /\ sameTile' = TRUE
                 /\ Quiet
            ELSE /\ doSwap(selected[1], selected[2], r, c)
                 /\ selected' = null
       ELSE /\ selected' = <<r, c>>
            /\ sameTile' = FALSE
            /\ Quiet

\* useImperativeHandle: reset() of a render of the Grid whose `initial` prop
\* is g, the render that follows it and its effects; rows and moves are what
\* the caller's own setters leave in App
reset(g, rows, moves) ==
    /\ grid' = g
    /\ swaps' = 0
    /\ selected' = null
    /\ swapCount' = 0
    /\ validRows' = rowValidity(grid')
    /\ Effects(0, rows, moves)
    /\ sameTile' = FALSE
    /\ UNCHANGED <<prevValid, origin, view, gesture, loop, showAnswers>>

\* the "Play yesterday" button of the victory dialog: gridRef.current.reset(),
\* setSwapCount(0), setRowSolved([false, ...]), setSolvedMoves(null)
\* The dialog is open only once solvedMoves is set, and setting it rendered
\* App after the Grid was mounted: the `initial` that reset() reads is the
\* grid of App's last render, in hard mode a shuffle drawn by that render.
PlayYesterday ==
    /\ solvedMoves # null
    /\ \E g \in renders[data][hardMode] : reset(g, NoRows, null)
    /\ awaiting' = [r \in DOMAIN validRows |-> validRows[r] /\ ~validRows'[r]]
    /\ outOfMovesSeen' = emitted'.outOfMoves
    /\ UNCHANGED <<data, hardMode>>

\* the "Keep playing" button of the out-of-moves dialog
KeepPlaying ==
    /\ showGiveUp
    /\ showGiveUp' = FALSE
    /\ emitted' = NoCalls
    /\ sameTile' = FALSE
    /\ UNCHANGED <<data, hardMode, swapCount, solvedMoves, rowSolved, grid,
                   swaps, selected, validRows, prevValid, origin, awaiting,
                   outOfMovesSeen, view, gesture, loop, showAnswers>>

\* what the buttons of the answers dialog leave alone; no state of the Grid
\* changes, so no effect runs
AnswersFrame ==
    /\ emitted' = NoCalls
    /\ sameTile' = FALSE
    /\ UNCHANGED <<data, hardMode, swapCount, solvedMoves, rowSolved, grid,
                   swaps, selected, validRows, prevValid, origin, awaiting,
                   outOfMovesSeen, view, gesture, loop>>

\* the "Give up" button, rendered while solvedMoves === null
GiveUp ==
    /\ solvedMoves = null
    /\ ~showAnswers
    /\ showAnswers' = TRUE
    /\ UNCHANGED showGiveUp
    /\ AnswersFrame

\* the "See answers" button of the out-of-moves dialog
SeeAnswers ==
    /\ showGiveUp
    /\ showGiveUp' = FALSE
    /\ showAnswers' = TRUE
    /\ AnswersFrame

\* onClose of the answers dialog. Its "New puzzle" button reloads the page,
\* which starts the program again from Init.
CloseAnswers ==
    /\ showAnswers
    /\ showAnswers' = FALSE
    /\ UNCHANGED showGiveUp
    /\ AnswersFrame

\* the hard mode toggle: App's setters, then the Grid is mounted anew
\* because its key changes
ToggleHardMode ==
    /\ hardMode' = ~hardMode
    /\ swapCount' = 0
    /\ rowSolved' = NoRows
    /\ showAnswers' = FALSE
    /\ UNCHANGED <<data, view, gesture, loop>>
    /\ \E g \in renders[data][hardMode'] : Mount(g)

Next ==
    \/ \E p \in Cells : handleTileClick(p[1], p[2])
    \/ \E p \in Cells, q \in Cells \cup {null} : handleDragEnd(p, q)
    \/ PlayYesterday
    \/ KeepPlaying
    \/ GiveUp
    \/ SeeAnswers
    \/ CloseAnswers
    \/ ToggleHardMode

Spec == Init /\ [][Next]_vars

(***************************************************************************)
(* The share summary of App, as the list of its lines: the title, then one *)
(* line per row. A line of glyphs is the sequence of its glyphs, the title *)
(* the sequence of the pieces of its template.                             *)
(***************************************************************************)
green == "green circle"

red == "red circle"

\* String.prototype.repeat
repeat(glyph, n) == [i \in 1..n |-> glyph]

\* a number in a template literal: its decimal digits
RECURSIVE numberText(_)
numberText(n) ==
    IF n < 10 THEN <<Digits[n + 1]>>
    ELSE numberText(n \div 10) \o <<Digits[(n % 10) + 1]>>

\* ${moves} for moves: number | null
movesText(moves) == IF moves = null THEN <<"n", "u", "l", "l">> ELSE numberText(moves[1])

\* rowSolved.map((v) => (v ? green.repeat(5) : red.repeat(5)))
emojiRows(rows) ==
    [r \in DOMAIN rows |-> IF rows[r] THEN repeat(green, 5) ELSE repeat(red, 5)]

\* buildEmojiGrid(ok, moves) in a render of App whose state is rows
\* (rowSolved), hard (hardMode) and id (data.id)
emojiGrid(ok, moves, rows, hard, id) ==
    LET tag == IF hard THEN " (hard)" ELSE ""
        title == IF ok
                 THEN <<"Jumbles ", id, tag, " - ", movesText(moves), "/14 swaps">>
                 ELSE <<"I got jumbled today", tag, " :(">>
    IN  <<title>> \o [i \in 1..Cardinality(DOMAIN rows) |-> emojiRows(rows)[i - 1]]

\* buildEmojiGrid(ok, moves) in the current render of App
buildEmojiGrid(ok, moves) == emojiGrid(ok, moves, rowSolved, hardMode, data.id)

\* the text copyShare puts on the clipboard from the dialog that is open:
\* copyShare(true) in the victory dialog, copyShare(false) in the
\* out-of-moves dialog
summary == buildEmojiGrid(solvedMoves # null, solvedMoves)

\* a dialog with a Share button is open
canShare == solvedMoves # null \/ showGiveUp

(***************************************************************************)
(* Loading: App renders the outcome of useQuery(fetchToday).               *)
(***************************************************************************)
\* a property the payload does not have
Undefined == [kind |-> "undefined"]

\* Array.isArray
isArray(v) == v.kind = "array"

\* the length of an array
length(a) == Cardinality(DOMAIN a)

\* the array a cut or padded to n letters, as a string or as an array
resized(a, n, asString) ==
    IF asString
    THEN Str([i \in 1..n |-> IF i - 1 \in DOMAIN a THEN a[i - 1] ELSE "E"])
    ELSE [kind |-> "array",
          items |-> [i \in 0..(n - 1) |-> IF i \in DOMAIN a THEN a[i] ELSE "E"]]

\* the grids a payload can carry: the rows of a puzzle, repeated or cut to
\* n rows, of which row odd has len letters
PayloadGrids ==
    { [r \in 0..(n - 1) |->
          IF r = odd THEN resized(toArr(d.grid[r % ROWS]), len, asString)
          ELSE d.grid[r % ROWS]] :
        d \in Puzzles, n \in (ROWS - Slack)..(ROWS + Slack),
        odd \in 0..(ROWS + Slack - 1), len \in (COLS - Slack)..(COLS + Slack),
        asString \in BOOLEAN }

\* the solution properties a payload can carry
PayloadSolutions ==
    {Undefined, Str(<<"t", "a", "t", "t">>)}
    \cup { Arr([i \in 1..n |-> d.solution.items[(i - 1) % ROWS]]) :
             d \in Puzzles, n \in (ROWS - Slack)..(ROWS + Slack) }

\* what useQuery can hand to App once it is no longer loading: no data
\* (null), or a payload
Payloads ==
    {null} \cup { [id |-> "2025-06-01", grid |-> g, solution |-> sol] :
                     g \in PayloadGrids, sol \in PayloadSolutions }

\* solutions: data.solution if it is an array, else []
solutions(d) == IF isArray(d.solution) THEN d.solution.items ELSE <<>>

\* App's render with only the test of grid.length
appViewGridOnly(d) ==
    IF d = null THEN "failed"
    ELSE IF length(preparedGrid(d)) # 4 THEN "unavailable"
    ELSE "game"

\* what App renders for d: the early returns and the payload test
appView(d) ==
    IF d = null THEN "failed"
    ELSE IF length(solutions(d)) # 4 \/ length(preparedGrid(d)) # 4
         THEN "unavailable"
    ELSE "game"

\* while isLoading, App renders "Loading" and no Grid exists
InitLoad ==
    /\ data \in Payloads
    /\ view = "loading"
    /\ gesture = Idle
    /\ loop = null
    /\ showAnswers = FALSE
    /\ hardMode = FALSE
    /\ swapCount = 0
    /\ rowSolved = NoRows
    /\ solvedMoves = null
    /\ showGiveUp = FALSE
    /\ grid = null
    /\ origin = null
    /\ swaps = 0
    /\ selected = null
    /\ validRows = null
    /\ prevValid = null
    /\ awaiting = NoRows
    /\ outOfMovesSeen = FALSE
    /\ emitted = NoCalls
    /\ sameTile = FALSE

\* the query settles and App renders its outcome; the Grid is mounted only
\* by the last return of App
queryResolved ==
    /\ view = "loading"
    /\ view' = appView(data)
    /\ UNCHANGED <<data, hardMode, swapCount, rowSolved, gesture, loop,
                   showAnswers>>
    /\ IF view' = "game"
       THEN Mount(preparedGrid(data))
       ELSE UNCHANGED <<grid, origin, swaps, selected, validRows, prevValid,
                        awaiting, outOfMovesSeen, emitted, solvedMoves,
                        showGiveUp, sameTile>>

NextLoad == queryResolved

SpecLoad == InitLoad /\ [][NextLoad]_vars

(***************************************************************************)
(* The earlier Grid whose performSwap has a budget guard                   *)
(* (unnamed/part_001). It has no onSwap prop and its callbacks are         *)
(* recorded in emitted only; the variables of App keep their values.       *)
(***************************************************************************)
\* prevRows.current: written nowhere
prevRows == [r \in 0..(ROWS - 1) |-> FALSE]

\* the effect of a render in which validRows or swaps is new: onRowSolved()
\* is called when rowSolved is not empty
effect_part001(vr, n) ==
    [swap |-> <<>>,
     rowSolved |-> {i \in DOMAIN vr : vr[i] /\ ~prevRows[i]},
     solved |-> IF every(vr) THEN <<n>> ELSE <<>>,
     outOfMoves |-> n >= MAX_SWAPS /\ ~every(vr)]

InitPart001 ==
    /\ data \in Puzzles
    /\ hardMode = FALSE
    /\ swapCount = 0
    /\ rowSolved = NoRows
    /\ grid = preparedGrid(data)
    /\ origin = grid
    /\ swaps = 0
    /\ selected = null
    /\ validRows = rowValidity(grid)
    /\ prevValid = prevRows
    /\ awaiting = NoRows
    /\ outOfMovesSeen = FALSE
    /\ emitted = effect_part001(validRows, 0)
    /\ solvedMoves = null
    /\ showGiveUp = FALSE
    /\ sameTile = FALSE
    /\ view = "game"
    /\ gesture = Idle
    /\ loop = null
    /\ showAnswers = FALSE

\* what no handler of this Grid writes
Frame_part001 ==
    UNCHANGED <<data, hardMode, swapCount, solvedMoves, showGiveUp, rowSolved,
                prevValid, origin, awaiting, outOfMovesSeen, view, gesture,
                loop, showAnswers>>

\* a handler that sets no state, or only the selection: no effect runs
Quiet_part001 ==
    /\ emitted' = NoCalls
    /\ UNCHANGED <<grid, swaps, validRows>>
    /\ Frame_part001

\* performSwap(r1, c1, r2, c2), the render that follows it and its effect
performSwap(r1, c1, r2, c2) ==
    /\ sameTile' = FALSE
    /\ IF swaps >= MAX_SWAPS
       THEN /\ Quiet_part001
            /\ UNCHANGED selected
       ELSE /\ grid' = nextGrid(grid, r1, c1, r2, c2)
            /\ selected' = null
            /\ swaps' = swaps + 1
            /\ validRows' = rowValidity(grid')
            /\ emitted' = effect_part001(validRows', swaps')
            /\ Frame_part001

\* the tile button of row r is disabled
disabled(r) == swaps >= MAX_SWAPS /\ ~validRows[r]

\* pick(r, c), the onClick of an enabled tile button
pick(r, c) ==
    /\ ~disabled(r)
    /\ IF selected = null
       THEN /\ selected' = <<r, c>>
            /\ sameTile' = FALSE
            /\ Quiet_part001
       ELSE IF selected[1] = r /\ selected[2] = c
            THEN /\ selected' = null
                 /\ sameTile' = TRUE
                 /\ Quiet_part001
            ELSE performSwap(selected[1], selected[2], r, c)

\* handleDragEnd(e) of this Grid
handleDragEnd_part001(from, to) ==
    IF to = null \/ idOf[from] = idOf[to]
    THEN /\ Quiet_part001
         /\ sameTile' = (to # null)
         /\ UNCHANGED selected
    ELSE performSwap(parsed[idOf[from]][1], parsed[idOf[from]][2],
                     parsed[idOf[to]][1], parsed[idOf[to]][2])

NextPart001 ==
    \/ \E p \in Cells : pick(p[1], p[2])
    \/ \E p \in Cells, q \in Cells \cup {null} : handleDragEnd_part001(p, q)

SpecPart001 == InitPart001 /\ [][NextPart001]_vars

(***************************************************************************)
(* The Grid with a pointer sensor (unnamed/part_000). Each tile runs the   *)
(* tap logic on pointer down, and the sensor starts a drag of that tile    *)
(* once the pointer has moved 8 px. The callbacks are recorded in emitted  *)
(* only; the variables of App keep their values.                           *)
(***************************************************************************)
\* the two effects of a render in which validRows or swaps is new; calls is
\* what the handler passed to onSwap
effects_part000(vr, n, calls) ==
    [swap |-> calls,
     rowSolved |-> {i \in DOMAIN vr : vr[i] /\ ~prevValid[i]},
     solved |-> IF every(vr) THEN <<n>> ELSE <<>>,
     outOfMoves |-> n >= MAX_SWAPS /\ ~every(vr)]

InitPart000 ==
    /\ data \in Puzzles
    /\ hardMode = FALSE
    /\ swapCount = 0
    /\ rowSolved = NoRows
    /\ grid = preparedGrid(data)
    /\ origin = grid
    /\ swaps = 0
    /\ selected = null
    /\ validRows = rowValidity(grid)
    /\ prevValid = validRows
    /\ awaiting = NoRows
    /\ outOfMovesSeen = FALSE
    /\ emitted = effects_part000(validRows, 0, <<>>)
    /\ solvedMoves = null
    /\ showGiveUp = FALSE
    /\ sameTile = FALSE
    /\ view = "game"
    /\ gesture = Idle
    /\ loop = null
    /\ showAnswers = FALSE

\* what no handler of this Grid writes
Frame_part000 ==
    UNCHANGED <<data, hardMode, swapCount, solvedMoves, showGiveUp, rowSolved,
                prevValid, origin, awaiting, outOfMovesSeen, sameTile, view,
                loop, showAnswers>>

\* a handler that sets no state, or only the selection: no effect runs
Quiet_part000 ==
    /\ emitted' = NoCalls
    /\ UNCHANGED <<grid, swaps, validRows>>
    /\ Frame_part000

\* doSwap(r1, c1, r2, c2), the render that follows it and its effects
doSwap_part000(r1, c1, r2, c2) ==
    /\ grid' = nextGrid(grid, r1, c1, r2, c2)
    /\ swaps' = swaps + 1
    /\ validRows' = rowValidity(grid')
    /\ emitted' = effects_part000(validRows', swaps', <<swaps'>>)
    /\ Frame_part000

\* handlePointerDown(r, c), the onPointerDown of a tile; the listeners of
\* DraggableBox receive the same event and the sensor starts to track it.
\* gesture keeps, beside the tile, the grid, counter and selection that
\* the gesture found.
handlePointerDown(r, c) ==
    /\ gesture.phase = "idle"
    /\ swaps < MaxCount
    /\ gesture' = [phase |-> "down", active |-> <<r, c>>, grid |-> grid,
                   swaps |-> swaps, selected |-> selected]
    /\ IF selected # null
       THEN IF selected[1] = r /\ selected[2] = c
            THEN /\ selected' = null
                 /\ Quiet_part000
            ELSE /\ doSwap_part000(selected[1], selected[2], r, c)
                 /\ selected' = null
       ELSE /\ selected' = <<r, c>>
            /\ Quiet_part000

\* the pointer is released before it has moved 8 px: the activation
\* constraint of the sensor is not met and no handler of the Grid runs
pointerUp ==
    /\ gesture.phase = "down"
    /\ gesture' = Idle
    /\ Quiet_part000
    /\ UNCHANGED selected

\* handleDragStart(_): the pointer has moved 8 px
handleDragStart ==
    /\ gesture.phase = "down"
    /\ gesture' = [gesture EXCEPT !.phase = "dragging"]
    /\ selected' = null
    /\ Quiet_part000

\* handleDragEnd(e) of this Grid with e.active.id the id of the tile the
\* pointer went down on and e.over?.id = idOf[to]
handleDragEnd_part000(to) ==
    /\ gesture.phase = "dragging"
    /\ gesture' = Idle
    /\ UNCHANGED selected
    /\ IF to = null \/ idOf[gesture.active] = idOf[to]
       THEN Quiet_part000
       ELSE doSwap_part000(parsed[idOf[gesture.active]][1],
                           parsed[idOf[gesture.active]][2],
                           parsed[idOf[to]][1], parsed[idOf[to]][2])

\* useImperativeHandle: reset() with onSwap?.(0), between two gestures
reset_part000 ==
    /\ gesture.phase = "idle"
    /\ grid' = origin
    /\ swaps' = 0
    /\ selected' = null
    /\ validRows' = rowValidity(grid')
    /\ emitted' = effects_part000(validRows', 0, <<0>>)
    /\ UNCHANGED gesture
    /\ Frame_part000

NextPart000 ==
    \/ \E p \in Cells : handlePointerDown(p[1], p[2])
    \/ pointerUp
    \/ handleDragStart
    \/ \E q \in Cells \cup {null} : handleDragEnd_part000(q)
    \/ reset_part000

SpecPart000 == InitPart000 /\ [][NextPart000]_vars

(***************************************************************************)
(* Two drags handled by one render of the Grid of App. A handler is a      *)
(* closure of the render that created it: doSwap reads the grid and swaps  *)
(* of that render, and the state it sets is visible only to the handlers   *)
(* of the next render. When two drag ends reach handleDragEnd before the   *)
(* Grid has rendered between them, both run against the same snapshot.     *)
(***************************************************************************)
\* handleDragEnd for a drag of p onto q and then, from the same render, for
\* a drag of p2 onto q2: each doSwap copies the grid of the render, and the
\* later setGrid, setSwaps replace the earlier; onSwap is called twice
handleDragEndTwice(p, q, p2, q2) ==
    /\ swaps < MaxCount
    /\ idOf[p] # idOf[q] /\ idOf[p2] # idOf[q2]
    /\ grid' = nextGrid(grid, p2[1], p2[2], q2[1], q2[2])
    /\ swaps' = newCount(swaps)
    /\ swapCount' = swaps'
    /\ validRows' = rowValidity(grid')
    /\ emitted' = [swap |-> <<swaps', swaps'>>,
                   rowSolved |-> rowEffect(validRows', prevValid),
                   solved |-> statusEffect(validRows', swaps').solved,
                   outOfMoves |-> statusEffect(validRows', swaps').outOfMoves]
    /\ rowSolved' = markRows(rowSolved, emitted'.rowSolved)
    /\ solvedMoves' = IF emitted'.solved # <<>> THEN emitted'.solved
                                                ELSE solvedMoves
    /\ showGiveUp' = (showGiveUp \/ emitted'.outOfMoves)
    /\ awaiting' = [r \in DOMAIN awaiting |-> awaiting[r] /\ ~validRows'[r]]
    /\ outOfMovesSeen' = (outOfMovesSeen \/ emitted'.outOfMoves)
    /\ sameTile' = FALSE
    /\ UNCHANGED <<data, hardMode, prevValid, origin, view, gesture, loop,
                   showAnswers, selected>>

NextSameRender ==
    \/ Next
    \/ \E p, q, p2, q2 \in Cells : handleDragEndTwice(p, q, p2, q2)

SpecSameRender == Init /\ [][NextSameRender]_vars

(***************************************************************************)
(* The tap-only Grid (the second component of components/Grid.tsx, also    *)
(* unnamed/part_002). Its props are initial and onSolved; it has no drag,  *)
(* no reset and no other callback.                                         *)
(***************************************************************************)
MAX_SWAPS_tapOnly == 12

\* the effect of a render in which validRows or swaps is new
effect_tapOnly(vr, n) ==
    [swap |-> <<>>,
     rowSolved |-> {},
     solved |-> IF every(vr) THEN <<n>> ELSE <<>>,
     outOfMoves |-> FALSE]

InitTapOnly ==
    /\ data \in Puzzles
    /\ hardMode = FALSE
    /\ swapCount = 0
    /\ rowSolved = NoRows
    /\ grid = preparedGrid(data)
    /\ origin = grid
    /\ swaps = 0
    /\ selected = null
    /\ validRows = rowValidity(grid)
    /\ prevValid = validRows
    /\ awaiting = NoRows
    /\ outOfMovesSeen = FALSE
    /\ emitted = effect_tapOnly(validRows, 0)
    /\ solvedMoves = null
    /\ showGiveUp = FALSE
    /\ sameTile = FALSE
    /\ view = "game"
    /\ gesture = Idle
    /\ loop = null
    /\ showAnswers = FALSE

\* what no handler of this Grid writes
Frame_tapOnly ==
    UNCHANGED <<data, hardMode, swapCount, solvedMoves, showGiveUp, rowSolved,
                prevValid, origin, awaiting, outOfMovesSeen, view, gesture,
                loop, showAnswers>>

\* a handler that sets no state, or only the selection: no effect runs
Quiet_tapOnly ==
    /\ emitted' = NoCalls
    /\ UNCHANGED <<grid, swaps, validRows>>
    /\ Frame_tapOnly

\* the tile button of row r is disabled
disabled_tapOnly(r) == swaps >= MAX_SWAPS_tapOnly /\ ~validRows[r]

\* swap(r, c) with the test of the limit moved behind the selection logic
swapGuardLate(r, c) ==
    /\ ~disabled_tapOnly(r)
    /\ sameTile' = FALSE
    /\ IF selected = null
       THEN /\ selected' = <<r, c>>
            /\ Quiet_tapOnly
       ELSE IF selected[1] = r /\ selected[2] = c
            THEN /\ selected' = null
                 /\ Quiet_tapOnly
            ELSE IF swaps >= MAX_SWAPS_tapOnly
                 THEN /\ Quiet_tapOnly
                      /\ UNCHANGED selected
                 ELSE /\ grid' = nextGrid(grid, selected[1], selected[2], r, c)
                      /\ selected' = null
                      /\ swaps' = swaps + 1
                      /\ validRows' = rowValidity(grid')
                      /\ emitted' = effect_tapOnly(validRows', swaps')
                      /\ Frame_tapOnly

\* swap(r, c), the onClick of an enabled tile button, the render that
\* follows it and its effect
swap_tapOnly(r, c) ==
    /\ ~disabled_tapOnly(r)
    /\ sameTile' = FALSE
    /\ IF swaps >= MAX_SWAPS_tapOnly
       THEN /\ Quiet_tapOnly
            /\ UNCHANGED selected
       ELSE IF selected = null
            THEN /\ selected' = <<r, c>>
                 /\ Quiet_tapOnly
            ELSE IF selected[1] = r /\ selected[2] = c
                 THEN /\ selected' = null
                      /\ Quiet_tapOnly
                 ELSE /\ grid' = nextGrid(grid, selected[1], selected[2], r, c)
                      /\ selected' = null
                      /\ swaps' = swaps + 1
                      /\ validRows' = rowValidity(grid')
                      /\ emitted' = effect_tapOnly(validRows', swaps')
                      /\ Frame_tapOnly

NextTapOnly == \E p \in Cells : swap_tapOnly(p[1], p[2])

SpecTapOnly == InitTapOnly /\ [][NextTapOnly]_vars

(***************************************************************************)
(* The share grid of the earlier Apps (unnamed/part_003, part_005), which  *)
(* mount the tap-only Grid and pass the count of onSolved to emojiGrid. A  *)
(* string is the sequence of its code points.                              *)
(***************************************************************************)
\* the literal of the solved square, one code point
solvedSquare == <<"U+1F7E9">>

\* the literal of the blank square: a white square and a variation selector
blankSquare == <<"U+2B1C", "U+FE0F">>

\* String.prototype.repeat for a string of code points
RECURSIVE repeatText(_, _)
repeatText(t, n) == IF n <= 0 THEN <<>> ELSE t \o repeatText(t, n - 1)

\* Math.max
max(a, b) == IF a >= b THEN a ELSE b

\* emojiGrid with 12 blank squares whatever moves is
emojiGridAllBlank(moves) ==
    repeatText(solvedSquare, moves) \o repeatText(blankSquare, 12)

\* emojiGrid(moves)
emojiGrid_part003(moves) ==
    repeatText(solvedSquare, moves)
        \o repeatText(blankSquare, max(0, 12 - moves))

\* the glyphs a string of code points is displayed as: a variation selector
\* belongs to the glyph of the code point before it
RECURSIVE glyphList(_)
glyphList(t) ==
    IF t = <<>> THEN <<>>
    ELSE IF Len(t) >= 2 /\ t[2] = "U+FE0F"
         THEN <<SubSeq(t, 1, 2)>> \o glyphList(SubSeq(t, 3, Len(t)))
         ELSE <<SubSeq(t, 1, 1)>> \o glyphList(Tail(t))

(***************************************************************************)
(* One render of App in hard mode, the shuffle loop taken one iteration at *)
(* a time. The render follows the press of the hard-mode toggle; when the  *)
(* loop is done the Grid is mounted with the shuffled grid. A draw may be  *)
(* any j in 0..i while loop.free iterations may still exchange two         *)
(* different indices.                                                      *)
(***************************************************************************)
InitShuffle ==
    /\ data \in Puzzles
    /\ hardMode = TRUE
    /\ swapCount = 0
    /\ rowSolved = NoRows
    /\ grid = preparedGrid(data)
    /\ origin = grid
    /\ swaps = 0
    /\ selected = null
    /\ validRows = rowValidity(grid)
    /\ prevValid = validRows
    /\ awaiting = NoRows
    /\ outOfMovesSeen = FALSE
    /\ emitted = NoCalls
    /\ solvedMoves = null
    /\ showGiveUp = FALSE
    /\ sameTile = FALSE
    /\ view = "game"
    /\ gesture = Idle
    /\ loop = [i |-> ROWS * COLS - 1, flat |-> flat(preparedGrid(data)),
               free |-> FreeDraws]
    /\ showAnswers = FALSE

\* one iteration: const j = Math.floor(Math.random() * (i + 1));
\*                [flat[i], flat[j]] = [flat[j], flat[i]]; i--
shuffleStep ==
    /\ loop # null
    /\ loop.i > 0
    /\ \E j \in (IF loop.free > 0 THEN 0..loop.i ELSE {loop.i}) :
          loop' = [i |-> loop.i - 1,
                   flat |-> exchange(loop.flat, loop.i, j),
                   free |-> IF j = loop.i THEN loop.free ELSE loop.free - 1]
    /\ UNCHANGED <<data, hardMode, swapCount, solvedMoves, showGiveUp,
                   rowSolved, grid, swaps, selected, validRows, prevValid,
                   origin, awaiting, outOfMovesSeen, emitted, sameTile, view,
                   gesture, showAnswers>>

\* the loop has ended: grid = Array.from({ length: 4 }, ...), and the Grid
\* is mounted with it
shuffleDone ==
    /\ loop # null
    /\ loop.i = 0
    /\ loop' = null
    /\ Mount(unflat(loop.flat))
    /\ UNCHANGED <<data, hardMode, swapCount, rowSolved, view, gesture,
                   showAnswers>>

NextShuffle == shuffleStep \/ shuffleDone

SpecShuffle == InitShuffle /\ [][NextShuffle]_vars

(***************************************************************************)
(* Vocabulary of the properties.                                           *)
(***************************************************************************)
AllCells == (0..(ROWS - 1)) \X (0..(COLS - 1))

at(g, p) == g[p[1]][p[2]]

\* this step handles a request to swap the different tiles p and q: a drag
\* from p dropped on q, or a tap on q while p is the pending selection
SwapRequest(p, q) ==
    /\ p # q
    /\ \/ handleDragEnd(p, q)
       \/ selected = p /\ handleTileClick(q[1], q[2])

\* this step is an accepted swap
AcceptedSwap == swaps' = swaps + 1

\* this step neither resets the Grid nor mounts a new one
SameRound == hardMode' = hardMode /\ emitted'.swap # <<0>>

\* the number of tiles of g that carry the letter ch
letterCount(g, ch) == Cardinality({p \in AllCells : at(g, p) = ch})

lettersOf(g) == {at(g, p) : p \in AllCells}

wellShaped(g) ==
    /\ DOMAIN g = 0..(ROWS - 1)
    /\ \A r \in DOMAIN g : DOMAIN g[r] = 0..(COLS - 1)

C2_LetterConservation ==
    /\ wellShaped(grid)
    /\ \A ch \in lettersOf(grid) \cup lettersOf(origin) :
            letterCount(grid, ch) = letterCount(origin, ch)

\* swaps were made, the grid differs from the one it started as, and a tile
\* is pending while the last step swapped (a drag)
C2_Witness ==
    /\ swaps >= 2
    /\ grid # origin
    /\ selected # null
    /\ emitted.swap = <<swaps>>

(***************************************************************************)
(* C3. Row-solved is edge-triggered: an accepted swap after which row r is *)
(* valid does not emit onRowSolved(r) if row r was valid before that swap. *)
(***************************************************************************)
C3_RowSolvedEdgeTriggered ==
    [][\A r \in 0..(ROWS - 1) :
            (AcceptedSwap /\ validRows[r] /\ validRows'[r])
                => r \notin emitted'.rowSolved]_vars

(***************************************************************************)
(* C4. Every transition of a row from invalid to valid is reported: an     *)
(* accepted swap after which row r is valid while it was invalid before    *)
(* emits onRowSolved(r), also for a row that was valid in the initial grid *)
(* and was broken in between.                                              *)
(***************************************************************************)
C4_RowSolvedOnEveryTransition ==
    [][\A r \in 0..(ROWS - 1) :
            (AcceptedSwap /\ ~validRows[r] /\ validRows'[r])
                => r \in emitted'.rowSolved]_vars

(***************************************************************************)
(* C5. Solved fires exactly once per puzzle instance: between creation or  *)
(* the last reset and the next reset, onSolved is emitted once all 4 rows  *)
(* are valid, and no later input emits it again.                           *)
(***************************************************************************)
C5_SolvedExactlyOnce ==
    /\ [](every(rowValidity(grid)) => solvedMoves # null)
    /\ [][(solvedMoves # null /\ SameRound) => emitted'.solved = <<>>]_vars

(***************************************************************************)
(* C6. Solved takes precedence over out-of-moves: the accepted swap that   *)
(* brings the counter to MAX_SWAPS and makes all 4 rows valid emits        *)
(* onSolved(MAX_SWAPS) and not onOutOfMoves, and no step emits both.       *)
(***************************************************************************)
C6_SolvedBeforeOutOfMoves ==
    /\ ~(emitted.solved # <<>> /\ emitted.outOfMoves)
    /\ (emitted.swap = <<MAX_SWAPS>> /\ every(rowValidity(grid)))
            => (emitted.solved = <<MAX_SWAPS>> /\ ~emitted.outOfMoves)

\* the swap that reached MAX_SWAPS solved the puzzle
C6_Witness ==
    /\ emitted.swap = <<MAX_SWAPS>>
    /\ every(rowValidity(grid))
    /\ solvedMoves = <<MAX_SWAPS>>

(***************************************************************************)
(* C7. OutOfMoves is emitted at most once between creation or the last     *)
(* reset and the next reset: once it has been emitted, no later tap or     *)
(* drag emits it again.                                                    *)
(***************************************************************************)
C7_OutOfMovesAtMostOnce ==
    [][(outOfMovesSeen /\ SameRound) => ~emitted'.outOfMoves]_vars

(***************************************************************************)
(* C8. Reset restores origin: reset() yields the grid the instance was     *)
(* created with, cell by cell, a counter of 0 and an empty selection, and  *)
(* passes 0 to onSwap.                                                     *)
(***************************************************************************)
C8_ResetRestoresOrigin ==
    [][PlayYesterday
        => (/\ \A p \in AllCells : at(grid', p) = at(origin, p)
            /\ swaps' = 0
            /\ selected' = null
            /\ emitted'.swap = <<0>>)]_vars

(***************************************************************************)
(* C9. Reset clears row-solved tracking: a row that was valid before the   *)
(* reset and is invalid in the restored grid emits onRowSolved again at    *)
(* the first accepted swap after the reset that makes it valid.            *)
(***************************************************************************)
C9_RowSolvedAfterReset ==
    [][\A r \in 0..(ROWS - 1) :
            (awaiting[r] /\ AcceptedSwap /\ validRows'[r])
                => r \in emitted'.rowSolved]_vars

(***************************************************************************)
(* C10. An accepted swap of the tiles p and q is a transposition: p gets   *)
(* the letter q had, q gets the letter p had and every other tile keeps    *)
(* its letter.                                                             *)
(***************************************************************************)
C10_SwapIsTransposition ==
    [][\A p, q \in Cells :
            SwapRequest(p, q)
                => (/\ at(grid', p) = at(grid, q)
                    /\ at(grid', q) = at(grid, p)
                    /\ \A o \in AllCells \ {p, q} :
                            at(grid', o) = at(grid, o))]_vars

\* the last step swapped two tiles that carry different letters
C10_Witness ==
    /\ emitted.swap = <<swaps>>
    /\ swaps >= 1
    /\ \E p \in Cells : at(grid, p) # at(origin, p)

(***************************************************************************)
(* C11. Self-swap is a no-op: a tap on the tile that is selected, or a     *)
(* tile dragged and dropped on itself, leaves the grid and the counter     *)
(* unchanged and makes no onSwap call; the tap leaves the selection empty. *)
(***************************************************************************)
C11_SelfSwapNoOp ==
    [][\A p \in Cells :
        /\ ((selected = p /\ handleTileClick(p[1], p[2])) \/ handleDragEnd(p, p))
              => /\ grid' = grid
                 /\ swaps' = swaps
                 /\ swapCount' = swapCount
                 /\ emitted'.swap = <<>>
        /\ (selected = p /\ handleTileClick(p[1], p[2])) => selected' = null]_vars

\* a self-swap was the last input, after the player had already swapped
C11_Witness == sameTile /\ swaps >= 1 /\ selected = null /\ emitted.swap = <<>>

(***************************************************************************)
(* C12. A tap on a tile while a different tile is pending always leaves    *)
(* the selection empty, whether the swap is accepted or rejected; in the   *)
(* Grid whose performSwap rejects swaps at the ceiling, a tap on a second  *)
(* tile when the counter equals MAX_SWAPS leaves no pending selection.     *)
(* Checked on that Grid, which does not behave so.                         *)
(***************************************************************************)
C12_SecondTapClearsSelection ==
    [][\A p, q \in Cells :
        (p # q /\ selected = p /\ pick(q[1], q[2])) => selected' = null]_vars

(***************************************************************************)
(* C13. Every accepted swap clears any active selection: if a tile is      *)
(* pending from a tap and a swap is then accepted through a drag, the      *)
(* selection is empty after that swap. The Grid does not behave so.        *)
(***************************************************************************)
C13_AcceptedSwapClearsSelection ==
    [][(AcceptedSwap /\ selected # null) => selected' = null]_vars

(***************************************************************************)
(* C14. Each accepted swap increments the counter by exactly 1 and calls   *)
(* onSwap with the new value; between resets the counter never decreases;  *)
(* and the value last delivered through onSwap, App's swapCount, equals    *)
(* the counter of the Grid. Stated for every step that is neither a reset  *)
(* nor a remount: it either leaves grid and counter alone and makes no     *)
(* onSwap call, or adds exactly 1 and calls onSwap with the new counter.   *)
(***************************************************************************)
C14_CounterStepsByOne ==
    /\ [](swapCount = swaps)
    /\ [][SameRound =>
            \/ swaps' = swaps /\ grid' = grid /\ emitted'.swap = <<>>
            \/ swaps' = swaps + 1 /\ emitted'.swap = <<swaps'>>]_vars

\* a third swap was just accepted by a Grid mounted in hard mode
C14_Witness ==
    hardMode /\ swaps >= 3 /\ swapCount = swaps /\ emitted.swap = <<swapCount>>

(***************************************************************************)
(* C15. The row validity vector is never stale: in every reachable state   *)
(* validRows[r] is true exactly when the 5 letters of row r, in order and  *)
(* lowercased, spell a word of the dictionary; upper case letters of the   *)
(* grid match the lowercase word.                                          *)
(***************************************************************************)
C15_ValidRowsCurrent ==
    \A r \in 0..(ROWS - 1) :
        validRows[r] <=>
            \E w \in WORD_SET :
                \A c \in 0..(COLS - 1) : lowerChar(at(grid, <<r, c>>)) = w[c + 1]

\* swaps made row 0, invalid at mount, spell TATTY in upper case
C15_Witness ==
    /\ swaps >= 1
    /\ validRows[0] /\ ~prevValid[0] /\ at(grid, <<0, 0>>) = "T"

(***************************************************************************)
(* C16. onSolved is emitted only in a state where all 4 rows are valid,    *)
(* and the value it carries is the swap counter of that state.             *)
(***************************************************************************)
C16_SolvedCarriesCounter ==
    emitted.solved # <<>> =>
        /\ \A r \in 0..(ROWS - 1) : validRows[r]
        /\ emitted.solved = <<swaps>>

\* a swap solved the puzzle and onSolved was called
C16_Witness ==
    swaps >= 1 /\ emitted.solved = <<swaps>> /\ emitted.swap = emitted.solved

(***************************************************************************)
(* C17. Whenever an accepted swap brings the counter to MAX_SWAPS while    *)
(* some row is invalid, onOutOfMoves is emitted before the next input is   *)
(* handled; onOutOfMoves is never emitted in a state where the counter is  *)
(* below MAX_SWAPS or where all 4 rows are valid.                          *)
(***************************************************************************)
C17_OutOfMovesAtLimit ==
    /\ (emitted.swap = <<MAX_SWAPS>> /\ \E r \in 0..(ROWS - 1) : ~validRows[r])
          => emitted.outOfMoves
    /\ emitted.outOfMoves
          => (swaps >= MAX_SWAPS /\ \E r \in 0..(ROWS - 1) : ~validRows[r])

\* the swap that brought the counter to MAX_SWAPS left row 0 invalid and
\* the give-up dialog is open
C17_Witness ==
    /\ swaps = MAX_SWAPS /\ emitted.swap = <<swaps>>
    /\ ~validRows[0] /\ emitted.outOfMoves /\ showGiveUp

(***************************************************************************)
(* C18. Solved is a terminal state: after onSolved has been emitted, no    *)
(* tap or drag input changes the grid or the swap counter until reset()    *)
(* is called. The Grid does not behave so.                                 *)
(***************************************************************************)
C18_SolvedIsTerminal ==
    [][(solvedMoves # null /\ SameRound) => (grid' = grid /\ swaps' = swaps)]_vars

\* the grid of payload d has exactly 4 rows of exactly 5 letters
wellFormedGrid(d) ==
    /\ DOMAIN d.grid = 0..(ROWS - 1)
    /\ \A r \in DOMAIN d.grid :
          IF d.grid[r].kind = "string" THEN Len(d.grid[r].chars) = COLS
          ELSE DOMAIN d.grid[r].items = 0..(COLS - 1)

\* the solution of payload d is a list of exactly 4 entries
wellFormedSolution(d) ==
    d.solution.kind = "array" /\ DOMAIN d.solution.items = 0..(ROWS - 1)

(***************************************************************************)
(* C19. A fetched puzzle whose grid does not have exactly 4 rows, or has a *)
(* row that does not have exactly 5 letters, is reported as the "Puzzle    *)
(* unavailable" state and no Grid is created for it. App does not behave   *)
(* so for a row of the wrong length.                                       *)
(***************************************************************************)
C19_MalformedGridUnavailable ==
    (view # "loading" /\ data # null /\ ~wellFormedGrid(data))
        => (view = "unavailable" /\ grid = null)

(***************************************************************************)
(* C20. A fetched puzzle whose solution list is missing, is not a list or  *)
(* does not have exactly 4 entries is reported as the "Puzzle unavailable" *)
(* state and no Grid is created for it, for any grid the payload carries.  *)
(***************************************************************************)
C20_BadSolutionUnavailable ==
    (view # "loading" /\ data # null /\ ~wellFormedSolution(data))
        => (view = "unavailable" /\ grid = null)

\* a payload with a well-formed grid and no solution property was rendered
C20_Witness ==
    /\ view = "unavailable" /\ grid = null
    /\ data # null /\ data.solution = Undefined /\ wellFormedGrid(data)

(***************************************************************************)
(* C21. Share summary rows: when the summary is built, line r of its rows  *)
(* is 5 solved glyphs if row r of the grid is valid at that moment and 5   *)
(* unsolved glyphs otherwise; a row solved and later broken is rendered    *)
(* unsolved, and a solved puzzle gives 4 solved lines. App does not        *)
(* behave so.                                                              *)
(***************************************************************************)
C21_SummaryRowsCurrent ==
    canShare =>
        \A r \in 0..(ROWS - 1) :
            summary[r + 2] = repeat(IF validRows[r] THEN green ELSE red, 5)

\* the summary built after this history: hard mode is switched on, the Grid
\* is mounted with a shuffle in which only row 0 is invalid, and the first
\* swap solves the puzzle (onRowSolved(0), onSolved(1))
directSolveSummary ==
    emojiGrid(TRUE, <<1>>, [r \in 0..(ROWS - 1) |-> r = 0], TRUE, data.id)

(***************************************************************************)
(* C22. The share summary is a function of the final state only: two play  *)
(* histories of the same puzzle in the same mode that end with the same    *)
(* grid and the same swap count produce identical summary text. Stated for *)
(* one final state, the solved grid in hard mode with swap count 1: every  *)
(* history that ends there produces the text that the history of           *)
(* directSolveSummary produces. App does not behave so.                    *)
(***************************************************************************)
C22_SummaryOfFinalState ==
    (hardMode /\ solvedMoves # null /\ swaps = 1 /\ every(validRows))
        => summary = directSolveSummary

(***************************************************************************)
(* C23. Notifications are delivered synchronously after the state change   *)
(* that caused them: the step of every accepted swap delivers onSwap and   *)
(* every onRowSolved, onSolved and onOutOfMoves the swap causes before the *)
(* next input is handled, so that App's state already holds them, and they *)
(* describe the state the swap produced: onSwap carries the new counter,   *)
(* onSolved carries the same count as onSwap, the rows reported are valid  *)
(* rows of the new grid, and onOutOfMoves is called with a row invalid.    *)
(***************************************************************************)
C23_NotificationsSynchronous ==
    [][AcceptedSwap =>
        /\ emitted'.swap = <<swaps'>>
        /\ swapCount' = swaps'
        /\ validRows' = rowValidity(grid')
        /\ emitted'.solved # <<>> =>
              (emitted'.solved = emitted'.swap /\ solvedMoves' = emitted'.swap)
        /\ \A r \in emitted'.rowSolved : validRows'[r] /\ rowSolved'[r]
        /\ emitted'.outOfMoves =>
              (showGiveUp' /\ \E r \in 0..(ROWS - 1) : ~validRows'[r])]_vars

\* the last swap made row 0 valid and solved the puzzle: onSwap,
\* onRowSolved(0) and onSolved were delivered with the same count
C23_Witness ==
    /\ emitted.swap = <<swaps>> /\ emitted.rowSolved = {0}
    /\ emitted.solved = emitted.swap /\ solvedMoves = <<swapCount>>
    /\ rowSolved[0]

(***************************************************************************)
(* C24. A tap that only records a selection (no tile pending) or only      *)
(* toggles it off (the same tile pending) changes nothing but the          *)
(* selection: grid, swap counter and row validity vector are unchanged and *)
(* no onSwap, onRowSolved, onSolved or onOutOfMoves call is made; and the  *)
(* selection is always empty or one coordinate with 0 <= row < 4 and       *)
(* 0 <= col < 5.                                                           *)
(***************************************************************************)
C24_SelectionTapFrame ==
    /\ [](selected = null \/ selected \in AllCells)
    /\ [][\A p \in Cells :
            ((selected = null \/ selected = p) /\ handleTileClick(p[1], p[2]))
                => /\ grid' = grid
                   /\ swaps' = swaps
                   /\ swapCount' = swapCount
                   /\ validRows' = validRows
                   /\ emitted' = NoCalls
                   /\ selected' = IF selected = null THEN p ELSE null]_vars

\* after a swap, a tile is pending again and the last input made no call:
\* the tap that selected it, or a drop outside the tiles that followed it
C24_Witness ==
    /\ selected \in Cells /\ ~sameTile
    /\ swaps >= 1 /\ emitted = NoCalls /\ swapCount = swaps

C26_HardResetRestoresShuffle ==
    [][(hardMode /\ swaps >= 1 /\ PlayYesterday) => grid' = origin]_vars

(***************************************************************************)
(* C27. In the Grid with a pointer sensor, one drag gesture from tile A to *)
(* a different tile B (pointer down on A, drag start, drag end over B)     *)
(* performs exactly one swap, A with B, and adds exactly 1 to the counter, *)
(* whether or not another tile X was pending from an earlier tap; starting *)
(* a drag cancels the pending selection without swapping X. Compared with  *)
(* the grid and counter the gesture found. The Grid does not behave so.    *)
(***************************************************************************)
C27_DragGestureIsOneSwap ==
    /\ [][handleDragStart
            => /\ selected' = null
               /\ grid' = gesture.grid
               /\ swaps' = gesture.swaps]_vars
    /\ [][\A b \in Cells :
            (/\ gesture.phase = "dragging"
             /\ b # gesture.active
             /\ handleDragEnd_part000(b))
                => /\ grid' = nextGrid(gesture.grid,
                                       gesture.active[1], gesture.active[2],
                                       b[1], b[2])
                   /\ swaps' = gesture.swaps + 1]_vars

(***************************************************************************)
(* C28. No accepted swap is lost: under every interleaving of tap and drag *)
(* inputs, including two swap requests handled against the same rendered   *)
(* snapshot of the grid and counter, the grid is the grid before with      *)
(* every accepted swap applied in order, and the counter has grown by the  *)
(* number of transpositions applied. Stated for one request and for two    *)
(* requests of one render. The Grid does not behave so.                    *)
(***************************************************************************)
C28_NoSwapLost ==
    /\ [][\A p, q \in Cells :
            SwapRequest(p, q)
                => /\ grid' = nextGrid(grid, p[1], p[2], q[1], q[2])
                   /\ swaps' = swaps + 1]_vars
    /\ [][\A p, q, p2, q2 \in Cells :
            handleDragEndTwice(p, q, p2, q2)
                => /\ grid' = nextGrid(nextGrid(grid, p[1], p[2], q[1], q[2]),
                                       p2[1], p2[2], q2[1], q2[2])
                   /\ swaps' = swaps + 2]_vars

(***************************************************************************)
(* C29. In the tap-only Grid (MAX_SWAPS = 12), whenever the swap counter   *)
(* equals 12 the selection is empty, and any tap in that state leaves the  *)
(* grid, the counter and the selection unchanged; the counter never        *)
(* exceeds 12.                                                             *)
(***************************************************************************)
C29_TapOnlyCeiling ==
    /\ [](swaps <= MAX_SWAPS_tapOnly)
    /\ [](swaps = MAX_SWAPS_tapOnly => selected = null)
    /\ [][\A p \in Cells :
            (swaps = MAX_SWAPS_tapOnly /\ swap_tapOnly(p[1], p[2]))
                => UNCHANGED <<grid, swaps, selected, validRows>>]_vars

\* the counter is 12, all rows are valid and the last step called nothing:
\* it was a tap at the limit, since the 12th swap itself calls onSolved(12)
C29_Witness ==
    /\ swaps = MAX_SWAPS_tapOnly /\ selected = null
    /\ every(validRows) /\ emitted = NoCalls

\* the number of entries of the flat array f that carry the letter ch
flatCount(f, ch) == Cardinality({k \in DOMAIN f : f[k] = ch})

(***************************************************************************)
(* C30. The hard-mode shuffle of a well-formed 4x5 puzzle yields a grid of *)
(* exactly 4 rows of 5 letters whose multiset of letters equals that of    *)
(* the fetched grid, for every outcome of the random choices: every        *)
(* iteration of the loop keeps the multiset of the flat array, and the     *)
(* grid mounted at the end has 4 rows of 5 letters and the same multiset.  *)
(***************************************************************************)
C30_ShufflePreservesLetters ==
    LET fetched == preparedGrid(data)
    IN  /\ loop # null =>
              /\ DOMAIN loop.flat = 0..(ROWS * COLS - 1)
              /\ \A ch \in lettersOf(fetched) \cup {loop.flat[k] : k \in DOMAIN loop.flat} :
                    flatCount(loop.flat, ch) = letterCount(fetched, ch)
        /\ loop = null =>
              /\ wellShaped(grid)
              /\ \A ch \in lettersOf(fetched) \cup lettersOf(grid) :
                    letterCount(grid, ch) = letterCount(fetched, ch)

\* the loop has ended and the Grid shows an arrangement in which two
\* letters have moved to another row
C30_Witness ==
    /\ loop = null /\ hardMode /\ origin = grid
    /\ grid[0] # preparedGrid(data)[0] /\ grid[3] # preparedGrid(data)[3]

(***************************************************************************)
(* C31. Toggling hard mode starts a fresh puzzle instance from any state:  *)
(* afterwards App's swapCount is 0, rowSolved is false for all 4 rows,     *)
(* solvedMoves is null, the out-of-moves and answers dialogs are closed,   *)
(* and the Grid is a new instance with swap counter 0 and no selection.    *)
(* App does not behave so.                                                 *)
(***************************************************************************)
C31_ToggleStartsFresh ==
    [][ToggleHardMode
        => /\ swapCount' = 0
           /\ rowSolved' = NoRows
           /\ solvedMoves' = null
           /\ ~showGiveUp' /\ ~showAnswers'
           /\ swaps' = 0 /\ selected' = null
           /\ origin' = grid' /\ prevValid' = validRows']_vars

(***************************************************************************)
(* C32. In the earlier App variants emojiGrid(moves) returns moves solved  *)
(* squares followed by max(0, 12 - moves) blank squares, so for every      *)
(* moves with 0 <= moves <= 12 the result has exactly 12 glyphs; and the   *)
(* Grid paired with it (MAX_SWAPS = 12) never reports moves above 12, so   *)
(* the grid shared for a reported count has 12 glyphs.                     *)
(***************************************************************************)
C32_EmojiGridTwelveGlyphs ==
    /\ \A moves \in 0..MAX_SWAPS_tapOnly :
          glyphList(emojiGrid_part003(moves))
              = [i \in 1..MAX_SWAPS_tapOnly |->
                    IF i <= moves THEN solvedSquare ELSE blankSquare]
    /\ emitted.solved # <<>> =>
          /\ emitted.solved[1] <= MAX_SWAPS_tapOnly
          /\ Len(glyphList(emojiGrid_part003(emitted.solved[1])))
                = MAX_SWAPS_tapOnly

\* the 12th swap solved the puzzle: onSolved(12), and the share grid is 12
\* solved squares
C32_Witness ==
    /\ emitted.solved = <<MAX_SWAPS_tapOnly>>
    /\ glyphList(emojiGrid_part003(swaps))
          = [i \in 1..MAX_SWAPS_tapOnly |-> solvedSquare]

====
